---------------------------- MODULE Spec2Model ----------------------------
\* A model of resolve_sets.py: the PlateSet grid (a set of combined plates)
\* with its h-pools and v-pools, and solve(), which rebuilds a PlateSet from
\* the two pool collections.
\*
\* Python values are modelled as follows.  A cell value is a string.  A list
\* is a function over 0..n-1, a dict a function over its keys, a set a set.
\* A call returns a record whose field exc names the exception it raised
\* ("None" when it returned normally).  Constructor arguments, whose dynamic
\* type the constructor inspects, are tagged records (PyInt, PyFloat, PyStr,
\* PyNone); a float is kept in tenths, so PyFloat(12) is 1.2.
EXTENDS Integers, Sequences, FiniteSets, TLC

VARIABLES
    self,   \* the PlateSet the methods are called on
    other,  \* a second PlateSet: the argument of fill_by_other / is_equal_to
    call,   \* the last call made: its name and its arguments
    ret     \* what that call returned or raised

vars == <<self, other, call, ret>>

---------------------------------------------------------------------------
(* Bounds of the model *)

MaxRows == 2
MaxCols == 2
MaxStart == 3
MaxFilled == 2

---------------------------------------------------------------------------
(* Python values *)

PyInt(n) == [t |-> "int", v |-> n]
PyFloat(tenths) == [t |-> "float", v |-> tenths]
PyStr(s) == [t |-> "str", s |-> s]
PyNone == [t |-> "NoneType"]

\* isinstance(x, float), isinstance(x, int)
IsFloat(x) == x.t = "float"
IsInt(x) == x.t = "int"

\* x == int(x) for a float x held in tenths
IsIntegral(x) == x.v % 10 = 0

\* int(x) for a float x (truncation toward zero)
ToInt(x) == PyInt(IF x.v >= 0 THEN x.v \div 10 ELSE -((-x.v) \div 10))

RECURSIVE Repeat(_, _)
Repeat(s, n) == IF n <= 0 THEN "" ELSE s \o Repeat(s, n - 1)

\* a * b: the exception it raises, and its value when it raises none
PyMul(a, b) ==
    CASE IsInt(a) /\ IsInt(b) -> [exc |-> "None", val |-> PyInt(a.v * b.v)]
      [] IsInt(a) /\ IsFloat(b) -> [exc |-> "None", val |-> PyFloat(a.v * b.v)]
      [] IsFloat(a) /\ IsInt(b) -> [exc |-> "None", val |-> PyFloat(a.v * b.v)]
      [] IsFloat(a) /\ IsFloat(b) ->
            [exc |-> "None", val |-> PyFloat((a.v * b.v) \div 10)]
      [] a.t = "str" /\ IsInt(b) -> [exc |-> "None", val |-> PyStr(Repeat(a.s, b.v))]
      [] IsInt(a) /\ b.t = "str" -> [exc |-> "None", val |-> PyStr(Repeat(b.s, a.v))]
      [] OTHER -> [exc |-> "TypeError"]

\* a Python int is stored as a plain integer, anything else stays tagged
Unbox(x) == IF IsInt(x) THEN x.v ELSE x

\* the index Python uses for list[i]: a negative i counts from the end
Idx(n, i) == IF i < 0 THEN n + i ELSE i

---------------------------------------------------------------------------
(* PlateSet *)

FILL == 5

null == Repeat("x", FILL)

\* PlateSet.__init__
PlateSet(rows, cols) ==
    LET bothFloat == IsFloat(rows) /\ IsFloat(cols)
        reject ==
            IF bothFloat
            THEN ~(IsIntegral(rows) /\ IsIntegral(cols))
            ELSE ~(IsInt(rows) \/ IsInt(cols))
        r == IF bothFloat THEN ToInt(rows) ELSE rows
        c == IF bothFloat THEN ToInt(cols) ELSE cols
        wells == PyMul(c, r)
    IN  IF reject THEN [exc |-> "TypeError"]
        ELSE IF wells.exc # "None" THEN [exc |-> wells.exc]
        \* range(self.num_rows), the outer iterable, is evaluated first
        ELSE IF ~IsInt(r) THEN [exc |-> "TypeError"]
        \* range(self.num_cols) is evaluated once per row, if there is a row
        ELSE IF r.v > 0 /\ ~IsInt(c) THEN [exc |-> "TypeError"]
        ELSE [exc |-> "None",
              plate |-> [num_rows |-> Unbox(r),
                         num_cols |-> Unbox(c),
                         num_wells |-> Unbox(wells.val),
                         grid |-> [i \in 0..(r.v - 1) |->
                                      [j \in 0..(c.v - 1) |-> null]]]]

\* row, col = position, or position[0] when position holds one pair
Unpack(position) ==
    IF Len(position) = 2 THEN position ELSE position[1]

\* a bounds check that forgets the lower bound
InRangeUpperOnly(p, row, col) == row < p.num_rows /\ col < p.num_cols

\* row in range(self.num_rows) and col in range(self.num_cols)
InRange(p, row, col) ==
    row \in 0..(p.num_rows - 1) /\ col \in 0..(p.num_cols - 1)

\* self.grid[row][col], with Python's list indexing
GetItem(p, row, col) ==
    LET i == Idx(p.num_rows, row)
        j == Idx(p.num_cols, col)
    IN  IF i \in 0..(p.num_rows - 1) /\ j \in 0..(p.num_cols - 1)
        THEN [exc |-> "None", val |-> p.grid[i][j]]
        ELSE [exc |-> "IndexError"]

\* a grid whose rows are one shared list: the write shows in every row
SetItemShared(p, row, col, value) ==
    [exc |-> "None",
     self |-> [p EXCEPT !.grid = [i \in DOMAIN p.grid |->
                                    [p.grid[i] EXCEPT ![Idx(p.num_cols, col)] = value]]]]

\* self.grid[row][col] = value, with Python's list indexing
SetItem(p, row, col, value) ==
    LET i == Idx(p.num_rows, row)
        j == Idx(p.num_cols, col)
    IN  IF i \in 0..(p.num_rows - 1) /\ j \in 0..(p.num_cols - 1)
        THEN [exc |-> "None",
              self |-> [p EXCEPT !.grid = [p.grid EXCEPT ![i] =
                                            [p.grid[i] EXCEPT ![j] = value]]]]
        ELSE [exc |-> "IndexError", self |-> p]

\* PlateSet.value_of
value_of(p, position) ==
    LET row == Unpack(position)[1]
        col == Unpack(position)[2]
    IN  IF ~InRange(p, row, col) THEN [exc |-> "ValueError"]
        ELSE GetItem(p, row, col)

\* PlateSet.insert
insert(p, value, position) ==
    LET row == Unpack(position)[1]
        col == Unpack(position)[2]
    IN  IF ~InRange(p, row, col) THEN [exc |-> "ValueError", self |-> p]
        ELSE SetItem(p, row, col, value)

\* PlateSet.remove
remove(p, position) ==
    LET row == Unpack(position)[1]
        col == Unpack(position)[2]
    IN  IF ~InRange(p, row, col) THEN [exc |-> "ValueError", self |-> p]
        ELSE SetItem(p, row, col, null)

\* the cells of p, in the order of the nested row/column loops
Cells(p) == (0..(p.num_rows - 1)) \X (0..(p.num_cols - 1))

\* PlateSet.count_defaults
count_defaults(p) ==
    Cardinality({rc \in Cells(p) : value_of(p, <<rc[1], rc[2]>>).val = null})

\* PlateSet.clear: remove() on every cell
RECURSIVE ClearFrom(_, _)
ClearFrom(p, k) ==
    IF k >= p.num_rows * p.num_cols THEN p
    ELSE ClearFrom(remove(p, <<k \div p.num_cols, k % p.num_cols>>).self, k + 1)

clear(p) == ClearFrom(p, 0)

\* PlateSet.get_rows
get_rows(p) == [i \in 0..(p.num_rows - 1) |-> p.grid[i]]

\* PlateSet.get_cols
get_cols(p) ==
    [j \in 0..(p.num_cols - 1) |->
        [i \in 0..(p.num_rows - 1) |-> value_of(p, <<i, j>>).val]]

\* the set of the elements of a list
Elements(list) == {list[k] : k \in DOMAIN list}

\* PlateSet.hpools
hpools(p) ==
    [row_idx \in 0..(p.num_rows - 1) |-> Elements(get_rows(p)[row_idx])]

\* PlateSet.vpools
vpools(p) ==
    [col_idx \in 0..(p.num_cols - 1) |-> Elements(get_cols(p)[col_idx])]

\* the loop of fill_by_other, from the k-th cell of other on (row-major); an
\* insert that raises ends it, with the cells written so far kept
RECURSIVE FillFrom(_, _, _)
FillFrom(p, o, k) ==
    IF k >= o.num_rows * o.num_cols THEN [exc |-> "None", self |-> p]
    ELSE LET pos == <<k \div o.num_cols, k % o.num_cols>>
             res == insert(p, value_of(o, pos).val, pos)
         IN  IF res.exc # "None" THEN res ELSE FillFrom(res.self, o, k + 1)

\* PlateSet.fill_by_other
fill_by_other(p, o) ==
    IF p.num_rows # o.num_rows /\ p.num_cols # o.num_rows
    THEN [exc |-> "ValueError", self |-> p]
    ELSE FillFrom(p, o, 0)

\* the loop of is_equal_to, from the k-th cell of self on (row-major)
RECURSIVE EqualFrom(_, _, _)
EqualFrom(p, o, k) ==
    IF k >= p.num_rows * p.num_cols THEN [exc |-> "None", equal |-> TRUE]
    ELSE LET pos == <<k \div p.num_cols, k % p.num_cols>>
             mine == value_of(p, pos)
             theirs == value_of(o, pos)
         IN  IF theirs.exc # "None" THEN [exc |-> theirs.exc]
             ELSE IF ~(mine.val = theirs.val) THEN [exc |-> "None", equal |-> FALSE]
             ELSE EqualFrom(p, o, k + 1)

\* PlateSet.is_equal_to
is_equal_to(p, o) ==
    IF (~(p.num_rows = o.num_rows)) /\ p.num_cols = o.num_cols
    THEN [exc |-> "None", equal |-> FALSE]
    ELSE EqualFrom(p, o, 0)

\* "ABCDEFGH"
WellLetters == <<"A", "B", "C", "D", "E", "F", "G", "H">>

PlateRows == 8
PlateCols == 12
SetRows == 16
SetCols == 24

\* the plates numbered column by column
offset_to_numByColumn ==
    (<<0, 0>> :> 0) @@ (<<0, 1>> :> 2) @@ (<<1, 0>> :> 1) @@ (<<1, 1>> :> 3)

\* the dict offset_to_num of _indices_to_well
offset_to_num ==
    (<<0, 0>> :> 0) @@ (<<0, 1>> :> 1) @@ (<<1, 0>> :> 2) @@ (<<1, 1>> :> 3)

\* PlateSet._indices_to_well
indices_to_well(position, start_at) ==
    LET row == Unpack(position)[1]
        col == Unpack(position)[2]
        offset == <<row \div PlateRows, col \div PlateCols>>
    IN  IF row > SetRows \/ col > SetCols THEN [exc |-> "ValueError"]
        ELSE IF offset \notin DOMAIN offset_to_num THEN [exc |-> "KeyError"]
        ELSE [exc |-> "None",
              well |-> "Plate " \o ToString(start_at + offset_to_num[offset])
                      \o " " \o WellLetters[(row % PlateRows) + 1]
                      \o ToString((col % PlateCols) + 1)]

---------------------------------------------------------------------------
(* solve *)

\* the items of a pool collection
PoolItems(pools) == UNION {pools[k] : k \in DOMAIN pools}

\* the pairs appended as (vpool_idx, hpool_idx)
solved_itemsSwapped(hp, vp) ==
    [item \in {x \in PoolItems(hp) : x \in PoolItems(vp)} |->
        {<<hv[2], hv[1]>> : hv \in {ab \in (DOMAIN hp) \X (DOMAIN vp) :
            item \in hp[ab[1]] /\ item \in vp[ab[2]]}}]

\* the dict solved_items after the first loop of solve: each item found in
\* an h-pool and in a v-pool, with its (hpool_idx, vpool_idx) pairs.  The
\* keys of a dict are distinct, so no pair is appended twice and the length
\* of an item's list is the number of its pairs.
solved_items(hp, vp) ==
    [item \in {x \in PoolItems(hp) : x \in PoolItems(vp)} |->
        {hv \in (DOMAIN hp) \X (DOMAIN vp) :
            item \in hp[hv[1]] /\ item \in vp[hv[2]]}]

\* an item is placed as soon as it has a pair
IsSolvedOrMore(pairs) == Cardinality(pairs) >= 1

\* len(solved_items[item]) == 1
IsSolved(pairs) == Cardinality(pairs) = 1

\* the pair read as (vpool_idx, hpool_idx)
FirstPairSwapped(pairs) ==
    LET hv == CHOOSE ab \in pairs : TRUE IN <<hv[2], hv[1]>>

\* solved_items[item][0]
FirstPair(pairs) == CHOOSE hv \in pairs : TRUE

\* the items the second loop of solve inserts at position rc
InsertedAt(hp, vp, rc) ==
    LET items == solved_items(hp, vp)
    IN  {item \in DOMAIN items :
            IsSolved(items[item]) /\ FirstPair(items[item]) = rc}

\* the second loop of solve, cell by cell from the k-th cell on.  Items
\* inserted at different cells do not interact; of several items inserted
\* at one cell the last one stays, and the order is the iteration order of
\* a set of strings, which differs from run to run: any of them may stay.
RECURSIVE InsertFrom(_, _, _, _, _)
InsertFrom(plates, hp, vp, shape, k) ==
    IF k >= shape.num_rows * shape.num_cols THEN plates
    ELSE LET rc == <<k \div shape.num_cols, k % shape.num_cols>>
             items == InsertedAt(hp, vp, rc)
         IN  InsertFrom(
                IF items = {} THEN plates
                ELSE {insert(p, item, <<rc>>).self : p \in plates, item \in items},
                hp, vp, shape, k + 1)

\* solve: the set of its possible outcomes
solve(hp, vp, num_rows, num_cols) ==
    LET solved_set == PlateSet(PyInt(num_rows), PyInt(num_cols))
        items == solved_items(hp, vp)
        raised == {insert(solved_set.plate, item, <<FirstPair(items[item])>>).exc :
                     item \in {x \in DOMAIN items : IsSolved(items[x])}}
                  \ {"None"}
    IN  IF solved_set.exc # "None" THEN {[exc |-> solved_set.exc]}
        ELSE IF raised # {} THEN {[exc |-> e] : e \in raised}
        ELSE {[exc |-> "None", solved_set |-> p] :
                p \in InsertFrom({solved_set.plate}, hp, vp, solved_set.plate, 0)}

---------------------------------------------------------------------------
(* Inputs of the model *)

\* the values written into cells: the ones of the tests
Items == {"A", "DUPLICATE"}

Values == Items \cup {null}

\* fixed-shape tokens, as fill_randomly draws them
NumItems == 4
Token(k) == "ITEM" \o ToString(k)
Tokens == {Token(k) : k \in 1..NumItems}

Shapes == (1..MaxRows) \X (1..MaxCols)

\* PlateSet(rows, cols) for integer rows and cols
NewPlate(rows, cols) == PlateSet(PyInt(rows), PyInt(cols)).plate

\* the positions the calls are tried with: every cell, and one step outside
\* the grid on each side
Positions(p) == (-1..p.num_rows) \X (-1..p.num_cols)

\* the number of cells of p that hold an item
Filled(p) == Cardinality({rc \in Cells(p) : p.grid[rc[1]][rc[2]] # null})

---------------------------------------------------------------------------
(* The methods of a PlateSet, called in any order (Spec) *)

Init ==
    /\ \E rc \in Shapes : self = NewPlate(rc[1], rc[2])
    /\ other = NewPlate(1, 1)
    /\ call = [op |-> "PlateSet"]
    /\ ret = [exc |-> "None"]

ValueOf ==
    \E pos \in Positions(self) :
        /\ call' = [op |-> "value_of", row |-> pos[1], col |-> pos[2]]
        /\ ret' = value_of(self, pos)
        /\ UNCHANGED <<self, other>>

Insert ==
    \E value \in Values, pos \in Positions(self) :
        LET res == insert(self, value, pos)
        IN  /\ Filled(res.self) <= MaxFilled
            /\ call' = [op |-> "insert", value |-> value,
                        row |-> pos[1], col |-> pos[2]]
            /\ self' = res.self
            /\ ret' = [exc |-> res.exc]
            /\ UNCHANGED other

Remove ==
    \E pos \in Positions(self) :
        LET res == remove(self, pos)
        IN  /\ call' = [op |-> "remove", row |-> pos[1], col |-> pos[2]]
            /\ self' = res.self
            /\ ret' = [exc |-> res.exc]
            /\ UNCHANGED other

Clear ==
    /\ call' = [op |-> "clear"]
    /\ self' = clear(self)
    /\ ret' = [exc |-> "None"]
    /\ UNCHANGED other

CountDefaults ==
    /\ call' = [op |-> "count_defaults"]
    /\ ret' = [exc |-> "None", num_default |-> count_defaults(self)]
    /\ UNCHANGED <<self, other>>

Hpools ==
    /\ call' = [op |-> "hpools"]
    /\ ret' = [exc |-> "None", hpools |-> hpools(self)]
    /\ UNCHANGED <<self, other>>

Vpools ==
    /\ call' = [op |-> "vpools"]
    /\ ret' = [exc |-> "None", vpools |-> vpools(self)]
    /\ UNCHANGED <<self, other>>

Next ==
    \/ ValueOf
    \/ Insert
    \/ Remove
    \/ Clear
    \/ CountDefaults
    \/ Hpools
    \/ Vpools

Spec == Init /\ [][Next]_vars

---------------------------------------------------------------------------
(* solve on the pools of a grid (SpecSolve, SpecRoundTrip) *)

\* insert at a cell of the grid
Place ==
    \E value \in Values, rc \in Cells(self) :
        LET res == insert(self, value, rc)
        IN  /\ call' = [op |-> "insert", value |-> value,
                        row |-> rc[1], col |-> rc[2]]
            /\ self' = res.self
            /\ ret' = [exc |-> res.exc]
            /\ UNCHANGED other

\* solve(self.hpools(), self.vpools(), self.num_rows, self.num_cols)
Solve ==
    \E out \in solve(hpools(self), vpools(self), self.num_rows, self.num_cols) :
        /\ call' = [op |-> "solve"]
        /\ ret' = out
        /\ UNCHANGED <<self, other>>

NextSolve == Place \/ Solve

SpecSolve == Init /\ [][NextSolve]_vars

\* the grids of the given shape with an item in every cell and no item in
\* two cells: what fill_randomly leaves when no token is drawn twice
FullPlates(rows, cols) ==
    IF rows * cols > NumItems THEN {}
    ELSE {[NewPlate(rows, cols) EXCEPT !.grid = g] :
            g \in {h \in [0..(rows - 1) -> [0..(cols - 1) -> Tokens]] :
                     \A a, b \in (0..(rows - 1)) \X (0..(cols - 1)) :
                        h[a[1]][a[2]] = h[b[1]][b[2]] => a = b}}

InitRoundTrip ==
    /\ \E rc \in Shapes : self \in FullPlates(rc[1], rc[2])
    /\ other = NewPlate(1, 1)
    /\ call = [op |-> "fill_randomly"]
    /\ ret = [exc |-> "None"]

NextRoundTrip == Solve \/ Hpools \/ Vpools

SpecRoundTrip == InitRoundTrip /\ [][NextRoundTrip]_vars

---------------------------------------------------------------------------
(* Two grids (SpecPair) *)

InitPair ==
    /\ \E rc \in Shapes : self = NewPlate(rc[1], rc[2])
    /\ \E rc \in Shapes : other = NewPlate(rc[1], rc[2])
    /\ call = [op |-> "PlateSet"]
    /\ ret = [exc |-> "None"]

\* other.insert at a cell of other
OtherPlace ==
    \E value \in Values, rc \in Cells(other) :
        LET res == insert(other, value, rc)
        IN  /\ call' = [op |-> "other.insert", value |-> value,
                        row |-> rc[1], col |-> rc[2]]
            /\ other' = res.self
            /\ ret' = [exc |-> res.exc]
            /\ UNCHANGED self

FillByOther ==
    LET res == fill_by_other(self, other)
    IN  /\ call' = [op |-> "fill_by_other"]
        /\ self' = res.self
        /\ ret' = [exc |-> res.exc]
        /\ UNCHANGED other

IsEqualTo ==
    /\ call' = [op |-> "is_equal_to"]
    /\ ret' = is_equal_to(self, other)
    /\ UNCHANGED <<self, other>>

NextPair == Place \/ OtherPlace \/ FillByOther \/ IsEqualTo

SpecPair == InitPair /\ [][NextPair]_vars

---------------------------------------------------------------------------
(* One call with given arguments: call holds the call being made and ret  *)
(* is pending until it returns (SpecPools, SpecConstruct, SpecWell)        *)

Pending == [exc |-> "pending"]

\* the items of the pool collections passed to solve
PoolTokens == {"A", "B"}

\* the pool collections with keys among 0..n: a key past the last index of
\* a grid with n rows (columns) included
PoolDicts(n) ==
    UNION {[keys -> SUBSET PoolTokens] : keys \in SUBSET (0..n)}

InitPools ==
    /\ self = NewPlate(1, 1)
    /\ other = NewPlate(1, 1)
    /\ \E rc \in Shapes :
         \E hp \in PoolDicts(rc[1]), vp \in PoolDicts(rc[2]) :
            call = [op |-> "solve", hpools |-> hp, vpools |-> vp,
                    num_rows |-> rc[1], num_cols |-> rc[2]]
    /\ ret = Pending

SolvePools ==
    /\ call.op = "solve"
    /\ \E out \in solve(call.hpools, call.vpools, call.num_rows, call.num_cols) :
         ret' = out
    /\ UNCHANGED <<self, other, call>>

SpecPools == InitPools /\ [][SolvePools]_vars

\* the arguments tried for PlateSet(rows, cols): integers, the floats of the
\* tests (1.0, 1.2, 2.0, 3.2), strings and None
Larger(a, b) == IF a >= b THEN a ELSE b

PyArgs ==
    {PyInt(n) : n \in 1..Larger(MaxRows, MaxCols)}
        \cup {PyFloat(10), PyFloat(12), PyFloat(20), PyFloat(32)}
        \cup {PyStr("a"), PyStr("b"), PyNone}

InitConstruct ==
    /\ self = NewPlate(1, 1)
    /\ other = NewPlate(1, 1)
    /\ \E rows \in PyArgs, cols \in PyArgs :
         call = [op |-> "PlateSet", rows |-> rows, cols |-> cols]
    /\ ret = Pending

Construct ==
    /\ call.op = "PlateSet"
    /\ ret' = PlateSet(call.rows, call.cols)
    /\ UNCHANGED <<self, other, call>>

SpecConstruct == InitConstruct /\ [][Construct]_vars

DefaultRows == 16
DefaultCols == 24

InitWell ==
    /\ self = NewPlate(DefaultRows, DefaultCols)
    /\ other = NewPlate(1, 1)
    /\ \E row \in -1..(SetRows + 1), col \in -1..(SetCols + 1),
          start_at \in 1..MaxStart :
         call = [op |-> "_indices_to_well", row |-> row, col |-> col,
                 start_at |-> start_at]
    /\ ret = Pending

IndicesToWell ==
    /\ call.op = "_indices_to_well"
    /\ ret' = indices_to_well(<<call.row, call.col>>, call.start_at)
    /\ UNCHANGED <<self, other, call>>

SpecWell == InitWell /\ [][IndicesToWell]_vars

---------------------------------------------------------------------------
(* Claims checked under Spec *)

\* (row, col) is a cell of p
IsCell(p, row, col) ==
    0 <= row /\ row < p.num_rows /\ 0 <= col /\ col < p.num_cols

\* the number of cells of p that hold the sentinel
Sentinels(p) == Cardinality({rc \in Cells(p) : p.grid[rc[1]][rc[2]] = null})

\* p and q have the same content in every cell but (row, col)
SameElsewhere(p, q, row, col) ==
    /\ p.num_rows = q.num_rows
    /\ p.num_cols = q.num_cols
    /\ \A rc \in Cells(p) : rc # <<row, col>> => q.grid[rc[1]][rc[2]] = p.grid[rc[1]][rc[2]]

\* C6: value_of, insert and remove at an integer position outside
\* [0, num_rows) x [0, num_cols), negative indices included, raise ValueError
\* and leave every cell and the dimensions of the grid as they were.
C6_OutOfRangeRaises ==
    [][(/\ call'.op \in {"value_of", "insert", "remove"}
        /\ ~IsCell(self, call'.row, call'.col))
       => (ret'.exc = "ValueError" /\ self' = self)]_vars

C6_Witness ==
    /\ call.op = "insert"
    /\ call.row = -1
    /\ call.value # null
    /\ ret.exc = "ValueError"
    /\ Filled(self) > 0

\* C10: an insert(v, r, c) inside the grid makes value_of(r, c) return v and
\* changes no other cell; a remove(r, c) inside the grid sets that cell to
\* the sentinel and changes no other cell; count_defaults() is the number of
\* cells that hold the sentinel.
C10_SingleCellMutation ==
    /\ [][(call'.op = "insert" /\ IsCell(self, call'.row, call'.col))
          => (/\ ret'.exc = "None"
              /\ value_of(self', <<call'.row, call'.col>>)
                    = [exc |-> "None", val |-> call'.value]
              /\ SameElsewhere(self, self', call'.row, call'.col))]_vars
    /\ [][(call'.op = "remove" /\ IsCell(self, call'.row, call'.col))
          => (/\ ret'.exc = "None"
              /\ value_of(self', <<call'.row, call'.col>>)
                    = [exc |-> "None", val |-> null]
              /\ SameElsewhere(self, self', call'.row, call'.col))]_vars
    /\ [](call.op = "count_defaults" => ret.num_default = Sentinels(self))
    /\ [](call.op = "PlateSet" => count_defaults(self) = self.num_wells)

C10_Witness ==
    /\ call.op = "insert"
    /\ IsCell(self, call.row, call.col)
    /\ call.value = "A"
    /\ ret.exc = "None"
    /\ self.grid[call.row][call.col] = "A"
    /\ \E rc \in Cells(self) : self.grid[rc[1]][rc[2]] = "DUPLICATE"
    /\ count_defaults(self) = self.num_wells - 2

\* C7: hpools() maps each row index to the set of the distinct items of that
\* row, and vpools() each column index to the set of the distinct items of
\* that column; the sentinel is never a member.
C7_PoolsHoldItemsOnly ==
    /\ call.op = "hpools" =>
          ret.hpools = [i \in 0..(self.num_rows - 1) |->
                        {self.grid[i][j] : j \in 0..(self.num_cols - 1)} \ {null}]
    /\ call.op = "vpools" =>
          ret.vpools = [j \in 0..(self.num_cols - 1) |->
                        {self.grid[i][j] : i \in 0..(self.num_rows - 1)} \ {null}]

---------------------------------------------------------------------------
(* Claims checked under SpecRoundTrip and SpecSolve *)

\* p and q have the same dimensions
SameShape(p, q) == p.num_rows = q.num_rows /\ p.num_cols = q.num_cols

\* the cells of p that hold item
Coords(p, item) == {rc \in Cells(p) : p.grid[rc[1]][rc[2]] = item}

\* every cell of p holds an item and no item is in two cells
FullNoCollision(p) ==
    /\ Coords(p, null) = {}
    /\ \A a, b \in Cells(p) : p.grid[a[1]][a[2]] = p.grid[b[1]][b[2]] => a = b

\* C1: for a grid G with an item in every cell and no item in two cells,
\* solve(G.hpools(), G.vpools(), rows, cols) returns a grid that is_equal_to
\* G: of the size of G, equal to G in every cell, with no sentinel left.
C1_RoundTrip ==
    (call.op = "solve" /\ FullNoCollision(self)) =>
        /\ ret.exc = "None"
        /\ is_equal_to(self, ret.solved_set) = [exc |-> "None", equal |-> TRUE]
        /\ ret.solved_set.num_rows = self.num_rows
        /\ ret.solved_set.num_cols = self.num_cols
        /\ \A rc \in Cells(self) :
              ret.solved_set.grid[rc[1]][rc[2]] = self.grid[rc[1]][rc[2]]
        /\ count_defaults(ret.solved_set) = 0

C1_Witness ==
    /\ call.op = "solve"
    /\ self.num_rows = MaxRows
    /\ self.num_cols = MaxCols
    /\ FullNoCollision(self)
    /\ ret.exc = "None"
    /\ ret.solved_set.grid = self.grid

\* C2: when an item is at two (or more) coordinates of G, solve on the pools
\* of G does not raise, the grid it returns holds the sentinel at each of
\* those coordinates and the item in no cell, and count_defaults() of that
\* grid is at least 2.
C2_Ambiguity ==
    call.op = "solve" =>
        \A item \in Items :
            Cardinality(Coords(self, item)) >= 2 =>
                /\ ret.exc = "None"
                /\ \A rc \in Coords(self, item) :
                      ret.solved_set.grid[rc[1]][rc[2]] = null
                /\ Coords(ret.solved_set, item) = {}
                /\ count_defaults(ret.solved_set) >= 2

C2_Witness ==
    /\ call.op = "solve"
    /\ self.num_rows = 2
    /\ self.num_cols = 2
    /\ Coords(self, "DUPLICATE") = {<<0, 0>>, <<1, 1>>}
    /\ Coords(self, "A") = {<<0, 1>>}
    /\ ret.exc = "None"
    /\ ret.solved_set.grid[0][1] = "A"
    /\ ret.solved_set.grid[0][0] = null
    /\ ret.solved_set.grid[1][1] = null

\* C11: for a grid G of any content, duplicates and empty cells included,
\* S = solve(G.hpools(), G.vpools(), G.num_rows, G.num_cols) holds at each
\* coordinate the value of G there when that value is in exactly one cell
\* of G, and the sentinel otherwise; solve does not raise, S has the size of
\* G, and no two items are inserted at one cell of S.
C11_SolveExact ==
    call.op = "solve" =>
        /\ ret.exc = "None"
        /\ SameShape(ret.solved_set, self)
        /\ \A rc \in Cells(self) :
              ret.solved_set.grid[rc[1]][rc[2]] =
                 IF Cardinality(Coords(self, self.grid[rc[1]][rc[2]])) = 1
                 THEN self.grid[rc[1]][rc[2]]
                 ELSE null
        /\ \A rc \in Cells(self) :
              Cardinality(InsertedAt(hpools(self), vpools(self), rc)) <= 1

C11_Witness ==
    /\ call.op = "solve"
    /\ self.num_rows = 2
    /\ self.num_cols = 2
    /\ Coords(self, "DUPLICATE") = {<<0, 0>>, <<0, 1>>}
    /\ Coords(self, "A") = {<<1, 0>>}
    /\ Coords(self, null) = {<<1, 1>>}
    /\ ret.exc = "None"
    /\ Coords(ret.solved_set, "A") = {<<1, 0>>}
    /\ Coords(ret.solved_set, null) = {<<0, 0>>, <<0, 1>>, <<1, 1>>}

---------------------------------------------------------------------------
(* Claims checked under SpecPair *)

\* C3: fill_by_other raises ValueError when the dimensions of other differ
\* from those of self; when they are the same it does not raise and leaves
\* every cell of self equal to the same cell of other.
C3_FillByOther ==
    call.op = "fill_by_other" =>
        IF SameShape(self, other)
        THEN ret.exc = "None" /\ self.grid = other.grid
        ELSE ret.exc = "ValueError"

\* C4: is_equal_to returns True when the dimensions are the same and every
\* cell of self equals the same cell of other, and False in every other
\* case; it never raises.
C4_IsEqualTo ==
    call.op = "is_equal_to" =>
        /\ ret.exc = "None"
        /\ ret.equal = (SameShape(self, other) /\ self.grid = other.grid)

---------------------------------------------------------------------------
(* Claims checked under SpecConstruct, SpecWell and SpecPools *)

\* an integer or an integer-valued real
Accepted(x) == IsInt(x) \/ (IsFloat(x) /\ IsIntegral(x))

AsInteger(x) == IF IsInt(x) THEN x.v ELSE ToInt(x).v

\* C5: PlateSet(rows, cols) yields an all-sentinel grid with integer
\* num_rows and num_cols when each of rows and cols is an integer or an
\* integer-valued real, in any combination, and raises TypeError when one of
\* them is anything else.
C5_ConstructAcceptReject ==
    (call.op = "PlateSet" /\ ret.exc # "pending") =>
        IF Accepted(call.rows) /\ Accepted(call.cols)
        THEN /\ ret.exc = "None"
             /\ ret.plate = NewPlate(AsInteger(call.rows), AsInteger(call.cols))
        ELSE ret.exc = "TypeError"

\* "Plate P W"
Label(plate_number, letter, number) ==
    "Plate " \o ToString(plate_number) \o " " \o letter \o ToString(number)

\* C8: for 0 <= row < 16, 0 <= col < 24 and a start offset s,
\* _indices_to_well(row, col, start_at=s) returns "Plate P W" with
\* P = s + 2*(row // 8) + (col // 12) and W the letter "ABCDEFGH"[row % 8]
\* followed by (col % 12) + 1; the five literal cases of the tests hold.
C8_IndicesToWell ==
    (call.op = "_indices_to_well" /\ ret.exc # "pending") =>
        /\ (call.row \in 0..15 /\ call.col \in 0..23) =>
              ret = [exc |-> "None",
                     well |-> Label(call.start_at + 2 * (call.row \div 8)
                                        + (call.col \div 12),
                                    WellLetters[(call.row % 8) + 1],
                                    (call.col % 12) + 1)]
        /\ (call.row = 0 /\ call.col = 0 /\ call.start_at = 1) =>
              ret.well = "Plate 1 A1"
        /\ (call.row = 0 /\ call.col = 11 /\ call.start_at = 1) =>
              ret.well = "Plate 1 A12"
        /\ (call.row = 8 /\ call.col = 0 /\ call.start_at = 1) =>
              ret.well = "Plate 3 A1"
        /\ (call.row = 0 /\ call.col = 12 /\ call.start_at = 1) =>
              ret.well = "Plate 2 A1"
        /\ (call.row = 0 /\ call.col = 12 /\ call.start_at = 3) =>
              ret.well = "Plate 4 A1"

C8_Witness ==
    /\ call.op = "_indices_to_well"
    /\ call.row = 9
    /\ call.col = 23
    /\ call.start_at = 3
    /\ ret.exc = "None"
    /\ ret.well = "Plate 6 B12"

\* C9: solve raises ValueError when the pool collections refer to a row-pool
\* index >= num_rows or a column-pool index >= num_cols, and never raises
\* when every index is in range.
C9_MalformedPools ==
    (call.op = "solve" /\ ret.exc # "pending") =>
        IF \/ \E h \in DOMAIN call.hpools : h >= call.num_rows
           \/ \E v \in DOMAIN call.vpools : v >= call.num_cols
        THEN ret.exc = "ValueError"
        ELSE ret.exc = "None"

=============================================================================
